---- MODULE Spec2Model ----
(***************************************************************************)
(* Model of the hstockplus Product API client (src/product_api.js).        *)
(*                                                                         *)
(* One ProductApi instance is constructed and its async methods are called *)
(* one after another.  A call runs synchronously up to `await axios(...)`  *)
(* (validation, request log, building the config), is suspended while the  *)
(* transport works, and resumes in the try continuation (axios resolved)   *)
(* or in the catch block (axios rejected, or the continuation threw).      *)
(*                                                                         *)
(* JavaScript values are tagged records; text is a TLA+ string, except the *)
(* API key and URLs, which are sequences so that substring() and           *)
(* concatenation are computed.                                             *)
(***************************************************************************)
EXTENDS Integers, Sequences, FiniteSets, TLC

VARIABLES
    constructed,  \* "no", "yes", or "failed" when the constructor threw
    apikey,       \* this.apikey
    baseUrl,      \* this.baseUrl
    pc,           \* where the current call is: "idle", "awaiting", "returned", "raised"
    call,         \* the method called and its arguments
    req,          \* the arguments request() was entered with, defaults applied
    config,       \* the config handed to axios
    axiosCalls,   \* how often the call has invoked axios
    outcome,      \* how the axios promise settled
    result,       \* the envelope the call resolved with
    thrown,       \* the message of the error the call threw
    log,          \* the log events of the call, in order
    trace,        \* the order of the call's effects: logs, dispatch, return, throw
    parked,       \* the locals of the calls suspended at their await meanwhile
    startTime,    \* Date.now() at the start of request()
    now           \* the wall clock

vars == <<constructed, apikey, baseUrl, pc, call, req, config, axiosCalls,
          outcome, result, thrown, log, trace, parked, startTime, now>>

(***************************************************************************)
(* Bounds of the model.                                                    *)
(***************************************************************************)
\* longest API key tried (keys of every length 1..MaxKeyLen)
MaxKeyLen == 13
\* most subproducts in one addProduct call
MaxSubproducts == 2
\* most calls suspended at their await while another call runs
MaxParked == 2
\* largest reading of the wall clock (Date.now())
MaxTime == 1

(***************************************************************************)
(* JavaScript values.                                                      *)
(***************************************************************************)
Undefined == [t |-> "undefined"]
Null == [t |-> "null"]
Str(s) == [t |-> "string", s |-> s]
\* a string kept as its sequence of characters
Chars(cs) == [t |-> "string", chars |-> cs]
Num(n) == [t |-> "number", n |-> n]
Bool(b) == [t |-> "boolean", b |-> b]
\* an object: its own properties in insertion order, as <<name, value>> pairs
Obj(kvs) == [t |-> "object", kv |-> kvs]
Arr(items) == [t |-> "array", items |-> items]

\* ToBoolean
Truthy(v) ==
    CASE v.t = "undefined" -> FALSE
      [] v.t = "null" -> FALSE
      [] v.t = "boolean" -> v.b
      [] v.t = "number" -> v.n # 0
      [] v.t = "string" -> IF "chars" \in DOMAIN v THEN v.chars # <<>> ELSE v.s # ""
      [] OTHER -> TRUE

\* a || b
Or(a, b) == IF Truthy(a) THEN a ELSE b

HasOwn(o, name) == o.t = "object" /\ \E i \in DOMAIN o.kv : o.kv[i][1] = name

\* o.name on a value that is not null or undefined (a primitive has no such
\* property of its own)
Get(o, name) ==
    IF HasOwn(o, name)
    THEN o.kv[CHOOSE i \in DOMAIN o.kv : o.kv[i][1] = name][2]
    ELSE Undefined

\* o?.name
OptGet(o, name) == IF o.t \in {"undefined", "null"} THEN Undefined ELSE Get(o, name)

\* Object.keys(o) for the objects and arrays of the model
ObjectKeys(o) ==
    CASE o.t = "object" -> [i \in DOMAIN o.kv |-> o.kv[i][1]]
      [] o.t = "array" -> [i \in DOMAIN o.items |-> "index"]
      [] OTHER -> <<>>

\* JSON.stringify(v): undefined for undefined, a text otherwise
JSONstringify(v) == IF v.t = "undefined" THEN Undefined ELSE [t |-> "string", json |-> v]

\* Buffer.byteLength(x, 'utf8') throws a TypeError unless x is a string
ByteLengthThrows(x) == x.t # "string"

Digit == <<"0", "1", "2", "3", "4", "5", "6", "7", "8", "9">>

RECURSIVE Decimal(_)
Decimal(n) == IF n < 10 THEN <<Digit[n + 1]>> ELSE Decimal(n \div 10) \o <<Digit[(n % 10) + 1]>>

\* String(v) as a sequence of URL tokens
ToTokens(v) ==
    CASE v.t = "number" -> Decimal(v.n)
      [] v.t = "string" -> IF "chars" \in DOMAIN v THEN v.chars ELSE <<v.s>>
      [] v.t = "boolean" -> IF v.b THEN <<"true">> ELSE <<"false">>
      [] OTHER -> <<v.t>>

\* s.substring(a, b): both ends clamped to 0..length, swapped when a > b
Substring(s, a, b) ==
    LET clamp(i) == IF i < 0 THEN 0 ELSE IF i > Len(s) THEN Len(s) ELSE i
        lo == IF clamp(a) <= clamp(b) THEN clamp(a) ELSE clamp(b)
        hi == IF clamp(a) <= clamp(b) THEN clamp(b) ELSE clamp(a)
    IN SubSeq(s, lo + 1, hi)

\* s.includes(t) for sequences
Includes(s, sub) ==
    \E i \in 0..(Len(s) - Len(sub)) : SubSeq(s, i + 1, i + Len(sub)) = sub

(***************************************************************************)
(* Program constants and the values the calls are tried with.              *)
(***************************************************************************)
\* timeout: 30000
Timeout == 30000
\* apiKey.substring(0, 8)
MaskHead == 8
\* apiKey.substring(apiKey.length - 4)
MaskTail == 4

BaseUrl == <<"https://hstockplus.com/api/admin/v2">>

KeyText == <<"s", "k", "_", "l", "i", "v", "e", "_", "1", "2", "3", "4",
             "5", "6", "7", "8", "9", "0", "a", "b", "c", "d", "e", "f">>

\* the API keys a client is constructed with
Keys == {Chars(SubSeq(KeyText, 1, n)) : n \in 1..MaxKeyLen}

\* arguments tried on the constructor: every key, the empty string, none
ConstructorArgs == Keys \cup {Chars(<<>>), Undefined}

NoCall == [op |-> "none"]
NoReq == [t |-> "none"]
NoConfig == [t |-> "none"]
NoOutcome == [kind |-> "none"]
NoResult == [t |-> "none"]
NoError == [t |-> "none"]

\* bodies a server answers with: absent, null, empty text, plain text, objects
ResponseBodies ==
    { Undefined, Null, Str(""), Str("Not Found"), Obj(<<>>),
      Obj(<< <<"message", Str("Invalid API key")>> >>),
      Obj(<< <<"error", Str("Forbidden")>> >>),
      Obj(<< <<"message", Str("")>>, <<"error", Str("Forbidden")>> >>),
      Obj(<< <<"message", Str("Invalid API key")>>, <<"error", Str("Forbidden")>> >>),
      Obj(<< <<"success", Bool(TRUE)>>, <<"friendlyId", Num(1001)>> >>) }

Response(status, data) == [t |-> "response", status |-> Num(status), data |-> data]

\* what axios resolves with: validateStatus is the default, so a 2xx response
\* (200 with every body, 204 with the bodies of an empty answer)
Responses2xx ==
    {Response(200, d) : d \in ResponseBodies}
    \cup {Response(204, d) : d \in {Undefined, Str("")}}

\* the response attached to an AxiosError: a status outside 200..299
\* (404 with every body, 500 with no body, text, or an object)
ErrorResponses ==
    {Response(404, d) : d \in ResponseBodies}
    \cup {Response(500, d) : d \in {Undefined, Str("Not Found"), Obj(<<>>)}}

ClientRequest == [t |-> "clientRequest"]

\* what axios rejects with: error.response, error.request, error.message
\* (an answered request, with or without its request object; an unanswered
\* one and one that was never sent, with and without a message)
AxiosErrors ==
    [response : ErrorResponses,
     request : {Undefined, ClientRequest},
     message : {Str("Request failed with status code")}]
    \cup [response : {Undefined},
          request : {Undefined, ClientRequest},
          message : {Str(""), Str("timeout of 30000ms exceeded")}]

\* the request went on the wire: it was answered, or a request object exists
Transmitted(o) ==
    \/ o.kind = "resolved"
    \/ o.kind = "rejected" /\ (Truthy(o.error.response) \/ Truthy(o.error.request))

(***************************************************************************)
(* constructor and getHeader                                               *)
(***************************************************************************)
Init ==
    /\ constructed = "no"
    /\ apikey = Undefined
    /\ baseUrl = <<>>
    /\ pc = "idle"
    /\ call = NoCall
    /\ req = NoReq
    /\ config = NoConfig
    /\ axiosCalls = 0
    /\ outcome = NoOutcome
    /\ result = NoResult
    /\ thrown = NoError
    /\ log = <<>>
    /\ trace = <<>>
    /\ parked = <<>>
    /\ startTime = 0
    /\ now = 0

\* constructor without the test of the key
constructor_noCheck(key) ==
    /\ constructed = "no"
    /\ constructed' = "yes"
    /\ apikey' = key
    /\ baseUrl' = BaseUrl
    /\ UNCHANGED <<pc, call, req, config, axiosCalls, outcome, result, thrown, log,
                   trace, parked, startTime, now>>

\* new ProductApi(key)
constructor(key) ==
    /\ constructed = "no"
    /\ IF ~Truthy(key)
       THEN /\ constructed' = "failed"
            /\ thrown' = Str("apikey is required")
            /\ UNCHANGED <<apikey, baseUrl>>
       ELSE /\ constructed' = "yes"
            /\ apikey' = key
            /\ baseUrl' = BaseUrl
            /\ UNCHANGED thrown
    /\ UNCHANGED <<pc, call, req, config, axiosCalls, outcome, result, log, trace,
                   parked, startTime, now>>

getHeader ==
    Obj(<< <<"X-Api-Key", apikey>>, <<"Content-Type", Str("application/json")>> >>)

(***************************************************************************)
(* request(method, url, headers = {}, data = null, params = null)          *)
(***************************************************************************)
\* a parameter default: taken when the argument is undefined
Default(v, d) == IF v.t = "undefined" THEN d ELSE v

\* HasParams without the test for an empty mapping
HasParams_truthyOnly(params) == Truthy(params)

\* params && Object.keys(params).length > 0
HasParams(params) == Truthy(params) /\ Len(ObjectKeys(params)) > 0

\* new URLSearchParams(params).toString(): name=value pairs joined by &
RECURSIVE QueryString(_)
QueryString(kvs) ==
    IF kvs = <<>> THEN <<>>
    ELSE <<kvs[1][1], "=">> \o ToTokens(kvs[1][2])
         \o (IF Len(kvs) > 1 THEN <<"&">> \o QueryString(Tail(kvs)) ELSE <<>>)

URLSearchParams(params) == QueryString(params.kv)

\* the URL written to the request log
fullUrlOf(url, params) ==
    IF HasParams(params)
    THEN url \o (IF Includes(url, <<"?">>) THEN <<"&">> ELSE <<"?">>)
             \o URLSearchParams(params)
    ELSE url

\* apiKey.substring(0, 8) + '...' + apiKey.substring(apiKey.length - 4)
maskApiKey(apiKey) ==
    Chars(Substring(apiKey.chars, 0, MaskHead) \o <<".", ".", ".">>
          \o Substring(apiKey.chars, Len(apiKey.chars) - MaskTail, Len(apiKey.chars)))

\* o with property name set to v (an existing property keeps its place)
SetProp(o, name, v) ==
    IF HasOwn(o, name)
    THEN Obj([i \in DOMAIN o.kv |-> IF o.kv[i][1] = name THEN <<name, v>> ELSE o.kv[i]])
    ELSE Obj(Append(o.kv, <<name, v>>))

\* the copy of the headers that is logged
safeHeadersOf(headers) ==
    IF Truthy(Get(headers, "X-Api-Key"))
    THEN SetProp(headers, "X-Api-Key", maskApiKey(Get(headers, "X-Api-Key")))
    ELSE headers

\* the request log: what lines 58-78 print
requestLog(method, url, headers, data, params) ==
    [kind |-> "request",
     method |-> method,
     url |-> fullUrlOf(url, params),
     headers |-> safeHeadersOf(headers),
     params |-> IF HasParams(params) THEN JSONstringify(params) ELSE Undefined,
     body |-> IF Truthy(data) THEN JSONstringify(data) ELSE Undefined]

\* axiosConfig with the masked headers of the log in place of the headers
axiosConfig_maskedHeaders(method, url, headers, data, params) ==
    [method |-> method, url |-> url, headers |-> safeHeadersOf(headers), timeout |-> Timeout]
    @@ (IF HasParams(params) THEN [params |-> params] ELSE <<>>)
    @@ (IF Truthy(data) THEN [data |-> data] ELSE <<>>)

\* axiosConfig without a timeout (0 is axios's "no timeout")
axiosConfig_noTimeout(method, url, headers, data, params) ==
    [method |-> method, url |-> url, headers |-> headers, timeout |-> 0]
    @@ (IF HasParams(params) THEN [params |-> params] ELSE <<>>)
    @@ (IF Truthy(data) THEN [data |-> data] ELSE <<>>)

\* the config handed to axios
axiosConfig(method, url, headers, data, params) ==
    [method |-> method, url |-> url, headers |-> headers, timeout |-> Timeout]
    @@ (IF HasParams(params) THEN [params |-> params] ELSE <<>>)
    @@ (IF Truthy(data) THEN [data |-> data] ELSE <<>>)

\* the TypeError of Buffer.byteLength: a plain Error, no response, no request
ByteLengthError ==
    [response |-> Undefined, request |-> Undefined,
     message |-> Str("The \"string\" argument must be of type string")]

\* the try block after `await axios(config)` resolved: the response log and
\* the envelope, or the error thrown on the way to them
tryBlock(response, duration) ==
    IF ByteLengthThrows(JSONstringify(response.data))
    THEN [threw |-> TRUE, error |-> ByteLengthError]
    ELSE [threw |-> FALSE,
          event |-> [kind |-> "response", duration |-> duration,
                     status |-> response.status,
                     data |-> JSONstringify(response.data)],
          envelope |-> [success |-> TRUE,
                        status |-> response.status,
                        data |-> response.data,
                        duration |-> duration]]

\* errorClass with the test of error.request put first
errorClass_requestFirst(error) ==
    IF Truthy(error.request) THEN "no response"
    ELSE IF Truthy(error.response) THEN "response"
    ELSE "setup"

\* the branch of the catch block an error takes
errorClass(error) ==
    IF Truthy(error.response) THEN "response"
    ELSE IF Truthy(error.request) THEN "no response"
    ELSE "setup"

\* data?.message || data?.error || 'Request failed'
serverMessage(data) ==
    Or(Or(OptGet(data, "message"), OptGet(data, "error")), Str("Request failed"))

\* networkMessage without the fallback text
networkMessage_noFallback(error) == error.message

\* error.message || 'Network error or server timeout'
networkMessage(error) == Or(error.message, Str("Network error or server timeout"))

\* the catch block: the error log and the envelope
catchBlock(error, duration) ==
    CASE errorClass(error) = "response" ->
           [threw |-> FALSE,
            event |-> [kind |-> "error", duration |-> duration, class |-> "response",
                       status |-> error.response.status,
                       detail |-> JSONstringify(error.response.data)],
            envelope |-> [success |-> FALSE,
                          status |-> error.response.status,
                          error |-> error.response.data,
                          message |-> serverMessage(error.response.data),
                          duration |-> duration]]
      [] errorClass(error) = "no response" ->
           [threw |-> FALSE,
            event |-> [kind |-> "error", duration |-> duration, class |-> "no response",
                       status |-> Null, detail |-> error.message],
            envelope |-> [success |-> FALSE,
                          status |-> Null,
                          error |-> Str("No response received"),
                          message |-> networkMessage(error),
                          duration |-> duration]]
      [] OTHER ->
           [threw |-> FALSE,
            event |-> [kind |-> "error", duration |-> duration, class |-> "setup",
                       status |-> Null, detail |-> error.message],
            envelope |-> [success |-> FALSE,
                          status |-> Null,
                          error |-> Str("Request setup error"),
                          message |-> error.message,
                          duration |-> duration]]

\* settle without the try/catch around the await
settle_noCatch(o, duration) ==
    IF o.kind = "resolved"
    THEN tryBlock(o.response, duration)
    ELSE [threw |-> TRUE, error |-> o.error]

\* what request() does with a settled axios promise
settle(o, duration) ==
    IF o.kind = "resolved"
    THEN IF tryBlock(o.response, duration).threw
         THEN catchBlock(tryBlock(o.response, duration).error, duration)
         ELSE tryBlock(o.response, duration)
    ELSE catchBlock(o.error, duration)

\* startTrace with axios invoked before the request log is printed
startTrace_dispatchFirst == <<"dispatch", "request log">>

\* the order of lines 58-100: the request log is printed, then axios is invoked
startTrace == <<"request log", "dispatch">>

\* Date.now() - startTime, in reverse
elapsed_reversed(start, end) == start - end

\* Date.now() - startTime
elapsed(start, end) == end - start

\* the synchronous part of request(): the request log, the config, axios(config)
requestStart(method, url, headers0, data0, params0) ==
    LET headers == Default(headers0, Obj(<<>>))
        data == Default(data0, Null)
        params == Default(params0, Null)
    IN /\ startTime' = now
       /\ req' = [method |-> method, url |-> url, headers |-> headers,
                  data |-> data, params |-> params]
       /\ log' = <<requestLog(method, url, headers, data, params)>>
       /\ trace' = startTrace
       /\ config' = axiosConfig(method, url, headers, data, params)
       /\ axiosCalls' = 1
       /\ pc' = "awaiting"
       /\ outcome' = NoOutcome
       /\ result' = NoResult
       /\ thrown' = NoError
       /\ UNCHANGED parked

\* a call that throws before request() is reached
raise(message) ==
    /\ pc' = "raised"
    /\ thrown' = Str(message)
    /\ log' = <<>>
    /\ trace' = <<"throw">>
    /\ req' = NoReq
    /\ config' = NoConfig
    /\ axiosCalls' = 0
    /\ outcome' = NoOutcome
    /\ result' = NoResult
    /\ UNCHANGED <<startTime, parked>>

\* a new call may be issued
CanCall == constructed = "yes" /\ pc = "idle"

\* resume with one more attempt after a rejected promise
resume_retry(o) ==
    /\ pc = "awaiting"
    /\ \E t \in now..MaxTime :
         /\ now' = t
         /\ outcome' = o
         /\ LET r == settle(o, elapsed(startTime, t))
            IN IF o.kind = "rejected" /\ axiosCalls < 2
               THEN /\ pc' = "awaiting"
                    /\ axiosCalls' = axiosCalls + 1
                    /\ trace' = Append(trace, "dispatch")
                    /\ UNCHANGED <<result, log, thrown>>
               ELSE /\ pc' = "returned"
                    /\ result' = r.envelope
                    /\ log' = Append(log, r.event)
                    /\ trace' = trace \o <<r.event.kind \o " log", "return">>
                    /\ UNCHANGED <<thrown, axiosCalls>>
    /\ UNCHANGED <<constructed, apikey, baseUrl, call, req, config, startTime, parked>>

\* request() continues after the await
resume(o) ==
    /\ pc = "awaiting"
    /\ \E t \in now..MaxTime :
         /\ now' = t
         /\ outcome' = o
         /\ LET r == settle(o, elapsed(startTime, t))
            IN IF r.threw
               THEN /\ pc' = "raised"
                    /\ thrown' = r.error.message
                    /\ trace' = Append(trace, "throw")
                    /\ UNCHANGED <<result, log>>
               ELSE /\ pc' = "returned"
                    /\ result' = r.envelope
                    /\ log' = Append(log, r.event)
                    /\ trace' = trace \o <<r.event.kind \o " log", "return">>
                    /\ UNCHANGED thrown
    /\ UNCHANGED <<constructed, apikey, baseUrl, call, req, config, axiosCalls, startTime,
                   parked>>

\* the caller has its result (or its exception): nothing of the call is kept
settled ==
    /\ pc \in {"returned", "raised"}
    /\ pc' = "idle"
    /\ call' = NoCall
    /\ req' = NoReq
    /\ config' = NoConfig
    /\ axiosCalls' = 0
    /\ outcome' = NoOutcome
    /\ result' = NoResult
    /\ thrown' = NoError
    /\ log' = <<>>
    /\ trace' = <<>>
    /\ UNCHANGED <<constructed, apikey, baseUrl, startTime, now, parked>>

\* the axios promise resolves with a 2xx response
axiosResolves(response) ==
    /\ response.status.n \in 200..299
    /\ resume([kind |-> "resolved", response |-> response])

\* the axios promise rejects
axiosRejects(error) ==
    /\ Truthy(error.response) => error.response.status.n \notin 200..299
    /\ resume([kind |-> "rejected", error |-> error])

(***************************************************************************)
(* uploadImage(options = {})                                               *)
(***************************************************************************)
UploadOptions ==
    { Undefined, Obj(<<>>),
      Obj(<< <<"imageUrl", Str("https://example.com/image.jpg")>> >>),
      Obj(<< <<"imageBase64", Str("data:image/jpeg;base64,AAAA")>> >>),
      Obj(<< <<"imageUrl", Str("https://example.com/image.jpg")>>,
             <<"imageBase64", Str("data:image/jpeg;base64,AAAA")>> >>),
      Obj(<< <<"imageUrl", Str("")>> >>) }

\* the condition of the throw at line 197
uploadImageInvalid(options) ==
    ~Truthy(Get(options, "imageUrl")) /\ ~Truthy(Get(options, "imageBase64"))

\* payload[name] = v when v is truthy
SetIfTruthy(o, name, v) == IF Truthy(v) THEN SetProp(o, name, v) ELSE o

uploadImagePayload(options) ==
    SetIfTruthy(SetIfTruthy(Obj(<<>>), "imageUrl", Get(options, "imageUrl")),
                "imageBase64", Get(options, "imageBase64"))

uploadImage(options0) ==
    /\ CanCall
    /\ call' = [op |-> "uploadImage", at |-> now, args |-> <<options0>>]
    /\ LET options == Default(options0, Obj(<<>>))
       IN IF uploadImageInvalid(options)
          THEN raise("Either imageUrl or imageBase64 must be provided")
          ELSE requestStart("POST", baseUrl \o <<"/upload-image">>, getHeader,
                            uploadImagePayload(options), Undefined)
    /\ UNCHANGED <<constructed, apikey, baseUrl, now>>

(***************************************************************************)
(* addProduct(productData)                                                 *)
(***************************************************************************)
GoodSubproduct ==
    Obj(<< <<"sourceProductId", Str("SUB-1")>>, <<"sourceName", Str("10K")>>,
           <<"price", Num(25)>>, <<"stock", Num(100)>> >>)

\* a good subproduct with one field changed, and null in place of a subproduct
SubproductInputs ==
    {GoodSubproduct, Null}
    \cup {SetProp(GoodSubproduct, f, v) :
            f \in {"sourceProductId", "sourceName"}, v \in {Undefined, Str("")}}
    \cup {SetProp(GoodSubproduct, f, v) :
            f \in {"price", "stock"}, v \in {Undefined, Null, Num(0)}}

\* subproducts arrays: good subproducts followed by one of the inputs
SubproductArrays ==
    {Arr(<<>>)}
    \cup {Arr([i \in 1..n |-> IF i < n THEN GoodSubproduct ELSE last]) :
            n \in 1..MaxSubproducts, last \in SubproductInputs}

GoodProduct ==
    Obj(<< <<"categoryName", Str("Accounts")>>,
           <<"subcategoryName", Str("Instagram Accounts")>>,
           <<"sourceProductId", Str("PROD-1")>>,
           <<"name", Str("Instagram Account")>>,
           <<"subproducts", Arr(<<GoodSubproduct>>)>> >>)

\* a good product with every optional field given
FullProduct ==
    Obj(GoodProduct.kv \o
        << <<"sourceUrl", Str("https://source/1")>>, <<"provider", Str("acme")>>,
           <<"description", Str("<p>d</p>")>>, <<"descriptionText", Str("d")>>,
           <<"image", Str("/uploads/i.webp")>>, <<"warrantyDays", Num(0)>>,
           <<"active", Bool(FALSE)>>, <<"productType", Str("manual")>> >>)

ProductInputs ==
    {GoodProduct, FullProduct}
    \cup {SetProp(GoodProduct, f, v) :
            f \in {"categoryName", "subcategoryName", "sourceProductId", "name"},
            v \in {Undefined, Str("")}}
    \cup {SetProp(GoodProduct, "subproducts", v) :
            v \in {Undefined, Null, Str("SUB-1"), GoodSubproduct} \cup SubproductArrays}

\* subproductError with price and stock tested for falsiness
subproductError_falsy(sp) ==
    CASE sp.t \in {"undefined", "null"} -> "TypeError: Cannot read properties"
      [] ~Truthy(Get(sp, "sourceProductId")) -> "subproduct.sourceProductId is required"
      [] ~Truthy(Get(sp, "sourceName")) -> "subproduct.sourceName is required"
      [] ~Truthy(Get(sp, "price")) -> "subproduct.price is required"
      [] ~Truthy(Get(sp, "stock")) -> "subproduct.stock is required"
      [] OTHER -> "ok"

\* the first check of the loop at lines 295-308 that throws on subproduct sp
subproductError(sp) ==
    CASE sp.t \in {"undefined", "null"} -> "TypeError: Cannot read properties"
      [] ~Truthy(Get(sp, "sourceProductId")) -> "subproduct.sourceProductId is required"
      [] ~Truthy(Get(sp, "sourceName")) -> "subproduct.sourceName is required"
      [] Get(sp, "price").t \in {"undefined", "null"} -> "subproduct.price is required"
      [] Get(sp, "stock").t \in {"undefined", "null"} -> "subproduct.stock is required"
      [] OTHER -> "ok"

\* subproductsInvalid without the test for an empty array
subproductsInvalid_noLength(subproducts) ==
    ~Truthy(subproducts) \/ subproducts.t # "array"

\* !subproducts || !Array.isArray(subproducts) || subproducts.length === 0
subproductsInvalid(subproducts) ==
    ~Truthy(subproducts) \/ subproducts.t # "array" \/ Len(subproducts.items) = 0

\* the message of the first throw of lines 277-308, "ok" when none throws
addProductError(productData) ==
    LET subproducts == Get(productData, "subproducts")
    IN CASE ~Truthy(Get(productData, "categoryName")) -> "categoryName is required"
         [] ~Truthy(Get(productData, "subcategoryName")) -> "subcategoryName is required"
         [] ~Truthy(Get(productData, "sourceProductId")) -> "sourceProductId is required"
         [] ~Truthy(Get(productData, "name")) -> "name is required"
         [] subproductsInvalid(subproducts) ->
              "subproducts is required and must contain at least one subproduct"
         [] \E i \in DOMAIN subproducts.items : subproductError(subproducts.items[i]) # "ok" ->
              subproductError(subproducts.items[
                  CHOOSE i \in DOMAIN subproducts.items :
                      /\ subproductError(subproducts.items[i]) # "ok"
                      /\ \A j \in 1..(i - 1) : subproductError(subproducts.items[j]) = "ok"])
         [] OTHER -> "ok"

\* payload[name] = v when v is not undefined
SetIfDefined(o, name, v) == IF v.t # "undefined" THEN SetProp(o, name, v) ELSE o

addProductPayload(productData) ==
    LET required ==
            Obj([i \in 1..5 |->
                   LET f == <<"categoryName", "subcategoryName", "sourceProductId",
                              "name", "subproducts">>[i]
                   IN <<f, Get(productData, f)>>])
        p1 == SetIfTruthy(required, "sourceUrl", Get(productData, "sourceUrl"))
        p2 == SetIfTruthy(p1, "provider", Get(productData, "provider"))
        p3 == SetIfTruthy(p2, "description", Get(productData, "description"))
        p4 == SetIfTruthy(p3, "descriptionText", Get(productData, "descriptionText"))
        p5 == SetIfTruthy(p4, "image", Get(productData, "image"))
        p6 == SetIfDefined(p5, "warrantyDays",
                           Default(Get(productData, "warrantyDays"), Num(7)))
        p7 == SetIfDefined(p6, "active", Default(Get(productData, "active"), Bool(TRUE)))
    IN SetIfTruthy(p7, "productType", Get(productData, "productType"))

addProduct(productData) ==
    /\ CanCall
    /\ call' = [op |-> "addProduct", at |-> now, args |-> <<productData>>]
    /\ IF addProductError(productData) # "ok"
       THEN raise(addProductError(productData))
       ELSE requestStart("POST", baseUrl \o <<"/products">>, getHeader,
                         addProductPayload(productData), Undefined)
    /\ UNCHANGED <<constructed, apikey, baseUrl, now>>

(***************************************************************************)
(* getProducts(options = {})                                               *)
(***************************************************************************)
GetProductsOptions ==
    { Undefined, Obj(<<>>),
      Obj(<< <<"productType", Str("auto,manual,inventory")>>, <<"isActive", Bool(FALSE)>>,
             <<"limit", Num(10)>>, <<"offset", Num(5)>> >>),
      Obj(<< <<"isActive", Chars(<<"T", "R", "U", "E">>)>> >>),
      Obj(<< <<"isActive", Null>> >>) }

UpperCase == <<"A", "B", "C", "D", "E", "F", "G", "H", "I", "J", "K", "L", "M",
               "N", "O", "P", "Q", "R", "S", "T", "U", "V", "W", "X", "Y", "Z">>
LowerCase == <<"a", "b", "c", "d", "e", "f", "g", "h", "i", "j", "k", "l", "m",
               "n", "o", "p", "q", "r", "s", "t", "u", "v", "w", "x", "y", "z">>

\* c.toLowerCase() for one character
LowerChar(c) ==
    IF \E i \in 1..26 : UpperCase[i] = c
    THEN LowerCase[CHOOSE i \in 1..26 : UpperCase[i] = c]
    ELSE c

\* v.toString().toLowerCase(), for v that has a toString
toStringLower(v) ==
    CASE v.t = "boolean" -> IF v.b THEN Str("true") ELSE Str("false")
      [] v.t = "string" /\ "chars" \in DOMAIN v ->
           Chars([i \in DOMAIN v.chars |-> LowerChar(v.chars[i])])
      [] OTHER -> Chars([i \in DOMAIN ToTokens(v) |-> LowerChar(ToTokens(v)[i])])

\* getProductsParams with isActive passed on as it is, not as text
getProductsParams_rawIsActive(options) ==
    Obj(<< <<"productType", Default(Get(options, "productType"), Str("auto"))>>,
           <<"isActive", Default(Get(options, "isActive"), Bool(TRUE))>>,
           <<"limit", Default(Get(options, "limit"), Num(50))>>,
           <<"offset", Default(Get(options, "offset"), Num(0))>> >>)

getProductsParams(options) ==
    Obj(<< <<"productType", Default(Get(options, "productType"), Str("auto"))>>,
           <<"isActive", toStringLower(Default(Get(options, "isActive"), Bool(TRUE)))>>,
           <<"limit", Default(Get(options, "limit"), Num(50))>>,
           <<"offset", Default(Get(options, "offset"), Num(0))>> >>)

getProducts(options0) ==
    /\ CanCall
    /\ call' = [op |-> "getProducts", at |-> now, args |-> <<options0>>]
    /\ LET options == Default(options0, Obj(<<>>))
       IN IF Default(Get(options, "isActive"), Bool(TRUE)).t \in {"undefined", "null"}
          THEN raise("TypeError: Cannot read properties of null (reading 'toString')")
          ELSE requestStart("GET", baseUrl \o <<"/products">>, getHeader,
                            Null, getProductsParams(options))
    /\ UNCHANGED <<constructed, apikey, baseUrl, now>>

(***************************************************************************)
(* deleteProduct(friendlyId)                                               *)
(***************************************************************************)
FriendlyIds == {Num(1001), Str("1001"), Num(0), Str(""), Null, Undefined}

deleteProduct(friendlyId) ==
    /\ CanCall
    /\ call' = [op |-> "deleteProduct", at |-> now, args |-> <<friendlyId>>]
    /\ IF ~Truthy(friendlyId)
       THEN raise("friendlyId is required")
       ELSE requestStart("DELETE", baseUrl \o <<"/products/">> \o ToTokens(friendlyId),
                         getHeader, Undefined, Undefined)
    /\ UNCHANGED <<constructed, apikey, baseUrl, now>>

(***************************************************************************)
(* request() called directly                                               *)
(***************************************************************************)
RequestUrls == {BaseUrl \o <<"/products">>, BaseUrl \o <<"/products", "?", "page", "=", "2">>}
RequestParams ==
    { Undefined, Null, Obj(<<>>),
      Obj(<< <<"limit", Num(50)>> >>),
      Obj(<< <<"productType", Str("auto")>>, <<"offset", Num(0)>> >>) }

\* GET with and without the client's headers, POST with and without a body
RequestArgs ==
    { <<"GET", url, headers, Undefined, params>> :
        url \in RequestUrls, headers \in {"getHeader", "default"}, params \in RequestParams }
    \cup { <<"POST", BaseUrl \o <<"/products">>, "getHeader", data, Undefined>> :
             data \in {Null, Obj(<<>>), Obj(<< <<"name", Str("n")>> >>)} }

request(method, url, headers, data, params) ==
    /\ CanCall
    /\ call' = [op |-> "request", at |-> now, args |-> <<method, url, headers, data, params>>]
    /\ requestStart(method, url, headers, data, params)
    /\ UNCHANGED <<constructed, apikey, baseUrl, now>>

(***************************************************************************)
(* The specification.                                                      *)
(***************************************************************************)
Next ==
    \/ \E key \in ConstructorArgs : constructor(key)
    \/ \E options \in UploadOptions : uploadImage(options)
    \/ \E productData \in ProductInputs : addProduct(productData)
    \/ \E options \in GetProductsOptions : getProducts(options)
    \/ \E friendlyId \in FriendlyIds : deleteProduct(friendlyId)
    \/ \E a \in RequestArgs :
          request(a[1], a[2], IF a[3] = "getHeader" THEN getHeader ELSE Undefined, a[4], a[5])
    \/ \E response \in Responses2xx : axiosResolves(response)
    \/ \E error \in AxiosErrors : axiosRejects(error)
    \/ settled

Spec == Init /\ [][Next]_vars

(***************************************************************************)
(* Calls issued concurrently: while a call is suspended at its await the   *)
(* caller issues another one; the suspended call continues later.          *)
(***************************************************************************)
\* the locals of the call that is suspended at `await axios(config)`
locals ==
    [call |-> call, req |-> req, config |-> config, axiosCalls |-> axiosCalls,
     log |-> log, trace |-> trace, startTime |-> startTime]

\* restoredStart for a startTime kept in a field of the client, written by
\* every call
restoredStart_shared(ctx) == startTime

\* the startTime a call finds when it continues: its own const (line 48)
restoredStart(ctx) == ctx.startTime

\* the call at its await gives way: the caller can issue another call
suspend ==
    /\ pc = "awaiting"
    /\ Len(parked) < MaxParked
    /\ parked' = Append(parked, locals)
    /\ pc' = "idle"
    /\ call' = NoCall
    /\ req' = NoReq
    /\ config' = NoConfig
    /\ axiosCalls' = 0
    /\ log' = <<>>
    /\ trace' = <<>>
    /\ UNCHANGED <<constructed, apikey, baseUrl, outcome, result, thrown, startTime, now>>

\* the i-th suspended call is the one whose axios promise is looked at next
continue(i) ==
    /\ pc = "idle"
    /\ i \in DOMAIN parked
    /\ parked' = SubSeq(parked, 1, i - 1) \o SubSeq(parked, i + 1, Len(parked))
    /\ pc' = "awaiting"
    /\ call' = parked[i].call
    /\ req' = parked[i].req
    /\ config' = parked[i].config
    /\ axiosCalls' = parked[i].axiosCalls
    /\ log' = parked[i].log
    /\ trace' = parked[i].trace
    /\ startTime' = restoredStart(parked[i])
    /\ UNCHANGED <<constructed, apikey, baseUrl, outcome, result, thrown, now>>

\* a client constructed with the longest key
InitConc ==
    /\ constructed = "yes"
    /\ apikey = Chars(SubSeq(KeyText, 1, MaxKeyLen))
    /\ baseUrl = BaseUrl
    /\ pc = "idle"
    /\ call = NoCall
    /\ req = NoReq
    /\ config = NoConfig
    /\ axiosCalls = 0
    /\ outcome = NoOutcome
    /\ result = NoResult
    /\ thrown = NoError
    /\ log = <<>>
    /\ trace = <<>>
    /\ parked = <<>>
    /\ startTime = 0
    /\ now = 0

\* the answers tried on concurrent calls: a body, no body
ConcResponses ==
    {Response(200, Obj(<< <<"success", Bool(TRUE)>>, <<"friendlyId", Num(1001)>> >>)),
     Response(204, Undefined)}

\* the failures tried on concurrent calls: a server error, a timeout, a
\* request that was never sent
ConcErrors ==
    {[response |-> Response(404, Obj(<< <<"message", Str("Invalid API key")>> >>)),
      request |-> ClientRequest, message |-> Str("Request failed with status code")],
     [response |-> Undefined, request |-> ClientRequest,
      message |-> Str("timeout of 30000ms exceeded")],
     [response |-> Undefined, request |-> Undefined, message |-> Str("")]}

\* the arguments tried on concurrent calls: for each endpoint one that is
\* dispatched and one other
ConcUploadOptions ==
    {o \in UploadOptions : o = Obj(<<>>) \/ Get(o, "imageBase64") # Undefined}
ConcGetProductsOptions ==
    {o \in GetProductsOptions : o = Undefined \/ Get(o, "limit") # Undefined}
ConcFriendlyIds == {id \in FriendlyIds : id.t \in {"number", "null"}}

NextConc ==
    \/ \E options \in ConcUploadOptions : uploadImage(options)
    \/ \E options \in ConcGetProductsOptions : getProducts(options)
    \/ \E friendlyId \in ConcFriendlyIds : deleteProduct(friendlyId)
    \/ \E response \in ConcResponses : axiosResolves(response)
    \/ \E error \in ConcErrors : axiosRejects(error)
    \/ settled
    \/ suspend
    \/ \E i \in 1..MaxParked : continue(i)

SpecConc == InitConc /\ [][NextConc]_vars

\* what axios rejects with when the timeout of the config expires
TimeoutError ==
    [response |-> Undefined, request |-> ClientRequest,
     message |-> Str("timeout of 30000ms exceeded")]

\* the axios promise of a config with a timeout settles: the server answers,
\* the transport fails, or the timeout expires
TransportSettles ==
    /\ pc = "awaiting"
    /\ config.timeout > 0
    /\ \/ \E response \in Responses2xx : axiosResolves(response)
       \/ \E error \in AxiosErrors : axiosRejects(error)

\* the program with a transport that does not hang beyond the timeout
FairSpec == Spec /\ WF_vars(TransportSettles)

(***************************************************************************)
(* Properties of request(): the envelope for each transport outcome.       *)
(***************************************************************************)
\* the call has resolved with an envelope for the axios outcome o
Returned == pc = "returned"

\* C1: whenever axios resolved with a 2xx response, whatever its body
\* (absent bodies included), the envelope has success true, the response's
\* status and the response's body as data.
C1_SuccessEnvelope ==
    (Returned /\ outcome.kind = "resolved") =>
        /\ result.success
        /\ result.status = outcome.response.status
        /\ "data" \in DOMAIN result
        /\ result.data = outcome.response.data

\* the message the claim C2 names for a response body: body.message, else
\* body.error, else "Request failed"; "Request failed" when body is no object
C2_Message(body) ==
    IF body.t # "object" THEN Str("Request failed")
    ELSE IF HasOwn(body, "message") /\ Truthy(Get(body, "message")) THEN Get(body, "message")
    ELSE IF HasOwn(body, "error") /\ Truthy(Get(body, "error")) THEN Get(body, "error")
    ELSE Str("Request failed")

\* C2: whenever axios rejected with a response attached (a request object
\* attached or not), the envelope has success false, the response's status,
\* the response's body as error, and the message of the fallback chain.
C2_ServerFailure ==
    (Returned /\ outcome.kind = "rejected" /\ outcome.error.response # Undefined) =>
        result = [success |-> FALSE,
                  status |-> outcome.error.response.status,
                  error |-> outcome.error.response.data,
                  message |-> C2_Message(outcome.error.response.data),
                  duration |-> result.duration]

\* C2 witness: an answered request with its request object attached, whose
\* body has an empty message and an error text, has returned that error text.
C2_Witness ==
    /\ Returned
    /\ outcome.kind = "rejected"
    /\ outcome.error.response # Undefined
    /\ outcome.error.request = ClientRequest
    /\ outcome.error.response.data =
         Obj(<< <<"message", Str("")>>, <<"error", Str("Forbidden")>> >>)
    /\ result.message = Str("Forbidden")

\* C3: whenever axios rejected with a request object and no response, the
\* envelope has success false, status null, error "No response received" and
\* the error's text as message, "Network error or server timeout" when the
\* text is empty.
C3_NoResponse ==
    (/\ Returned
     /\ outcome.kind = "rejected"
     /\ outcome.error.response = Undefined
     /\ outcome.error.request = ClientRequest) =>
        result = [success |-> FALSE,
                  status |-> Null,
                  error |-> Str("No response received"),
                  message |-> IF outcome.error.message = Str("")
                              THEN Str("Network error or server timeout")
                              ELSE outcome.error.message,
                  duration |-> result.duration]

\* C3 witness: an unanswered request whose error has no text has returned.
C3_Witness ==
    /\ Returned
    /\ outcome.kind = "rejected"
    /\ outcome.error.response = Undefined
    /\ outcome.error.request = ClientRequest
    /\ outcome.error.message = Str("")
    /\ result.message = Str("Network error or server timeout")

\* C4: an envelope with error "Request setup error" is returned only for a
\* call whose request was never transmitted.
C4_SetupOnlyUnsent ==
    (Returned /\ "error" \in DOMAIN result /\ result.error = Str("Request setup error")) =>
        ~Transmitted(outcome)

\* C5: whenever axios rejected (server failure, no response, setup failure)
\* the call has not thrown: it resolved with a failure envelope.
C5_NeverRaises ==
    (outcome.kind = "rejected") => (Returned /\ ~result.success /\ thrown = NoError)

\* C5 witness: a request that was never sent has returned a failure envelope.
C5_Witness ==
    /\ outcome.kind = "rejected"
    /\ ~Transmitted(outcome)
    /\ Returned
    /\ result.error = Str("Request setup error")

\* C6: when producing the response log fails (the byte size of the body
\* cannot be computed), the call still resolves with the success envelope of
\* its 2xx response and does not throw.
C6_LogObservational ==
    (/\ pc \in {"returned", "raised"}
     /\ outcome.kind = "resolved"
     /\ ByteLengthThrows(JSONstringify(outcome.response.data))) =>
        /\ Returned
        /\ result = [success |-> TRUE,
                     status |-> outcome.response.status,
                     data |-> outcome.response.data,
                     duration |-> result.duration]

(***************************************************************************)
(* Properties of the request log and of the dispatched config.             *)
(***************************************************************************)
\* the first n characters of s, all of s when it is shorter
FirstChars(s, n) == IF Len(s) <= n THEN s ELSE SubSeq(s, 1, n)

\* the last n characters of s, all of s when it is shorter
LastChars(s, n) == IF Len(s) <= n THEN s ELSE SubSeq(s, Len(s) - n + 1, Len(s))

\* the text values of a logged header object
HeaderTexts(headers) ==
    {headers.kv[i][2].chars : i \in {j \in DOMAIN headers.kv : "chars" \in DOMAIN headers.kv[j][2]}}

\* C7: for every API key, the X-Api-Key value of the request log is the key's
\* first 8 characters, "...", and its last 4 characters, and no logged header
\* value contains the raw key.
C7_KeyMasked ==
    \A i \in DOMAIN log :
        (log[i].kind = "request" /\ HasOwn(log[i].headers, "X-Api-Key")) =>
            /\ Get(log[i].headers, "X-Api-Key").chars =
                 FirstChars(apikey.chars, 8) \o <<".", ".", ".">> \o LastChars(apikey.chars, 4)
            /\ \A text \in HeaderTexts(log[i].headers) : ~Includes(text, apikey.chars)

\* the parameters of a mapping, as the <<name, "=", value>> runs of a query
ParamRuns(params) ==
    {<<params.kv[i][1], "=">> \o ToTokens(params.kv[i][2]) : i \in DOMAIN params.kv}

\* C8: when request() is entered with params null or an empty mapping, the
\* logged URL is the given URL (nothing appended, no "?") and the config
\* carries no params; with a non-empty mapping the logged URL is the given URL
\* followed by a query that holds every parameter, and the config carries the
\* same mapping.
C8_Params ==
    (req # NoReq) =>
        IF req.params = Null \/ req.params = Obj(<<>>)
        THEN /\ log[1].url = req.url
             /\ "params" \notin DOMAIN config
        ELSE /\ Len(log[1].url) > Len(req.url)
             /\ SubSeq(log[1].url, 1, Len(req.url)) = req.url
             /\ \A run \in ParamRuns(req.params) :
                    Includes(SubSeq(log[1].url, Len(req.url) + 1, Len(log[1].url)), run)
             /\ "params" \in DOMAIN config
             /\ config.params = req.params

\* C8 witness: request() was entered with an empty mapping and has dispatched.
C8_Witness ==
    /\ pc = "awaiting"
    /\ req # NoReq
    /\ req.params = Obj(<<>>)
    /\ axiosCalls = 1
    /\ log[1].url = req.url

(***************************************************************************)
(* Properties of the endpoint methods' validation.                         *)
(***************************************************************************)
\* a required text field of an object is missing or empty
Missing(o, name) == ~HasOwn(o, name) \/ Get(o, name) \in {Undefined, Null, Str("")}

\* a subproduct entry the claims call malformed
MalformedSubproduct(sp) ==
    \/ sp.t # "object"
    \/ Missing(sp, "sourceProductId")
    \/ Missing(sp, "sourceName")
    \/ ~HasOwn(sp, "price") \/ Get(sp, "price") \in {Undefined, Null}
    \/ ~HasOwn(sp, "stock") \/ Get(sp, "stock") \in {Undefined, Null}

\* the arguments of the current call fail the precondition the claims name
PreconditionFails ==
    \/ /\ call.op = "uploadImage"
       /\ \/ call.args[1] = Undefined
          \/ Missing(call.args[1], "imageUrl") /\ Missing(call.args[1], "imageBase64")
    \/ /\ call.op = "addProduct"
       /\ \/ \E f \in {"categoryName", "subcategoryName", "sourceProductId", "name"} :
                Missing(call.args[1], f)
          \/ Get(call.args[1], "subproducts").t # "array"
          \/ Get(call.args[1], "subproducts").items = <<>>
          \/ \E i \in DOMAIN Get(call.args[1], "subproducts").items :
                MalformedSubproduct(Get(call.args[1], "subproducts").items[i])
    \/ /\ call.op = "deleteProduct"
       /\ call.args[1] \in {Undefined, Null, Str(""), Num(0)}

\* C9: a call of uploadImage, addProduct or deleteProduct whose precondition
\* fails has thrown: it has no envelope, axios was never invoked, no config
\* exists and nothing was logged.
C9_ValidationRaises ==
    PreconditionFails =>
        /\ pc = "raised"
        /\ thrown # NoError
        /\ result = NoResult
        /\ axiosCalls = 0
        /\ config = NoConfig

\* C9 witness: addProduct was called with an empty subproducts array and threw.
C9_Witness ==
    /\ call.op = "addProduct"
    /\ Get(call.args[1], "subproducts") = Arr(<<>>)
    /\ pc = "raised"
    /\ axiosCalls = 0

\* the product's required fields are present and every subproduct has its
\* names and a price and a stock that are neither undefined nor null
ValidProduct(p) ==
    /\ \A f \in {"categoryName", "subcategoryName", "sourceProductId", "name"} : ~Missing(p, f)
    /\ Get(p, "subproducts").t = "array"
    /\ Get(p, "subproducts").items # <<>>
    /\ \A i \in DOMAIN Get(p, "subproducts").items :
           ~MalformedSubproduct(Get(p, "subproducts").items[i])

\* C10: addProduct with a valid product, stock or price zero included, does
\* not throw: it is dispatched as POST <baseUrl>/products.
C10_ZeroStockAccepted ==
    (call.op = "addProduct" /\ ValidProduct(call.args[1])) =>
        /\ pc \in {"awaiting", "returned"}
        /\ axiosCalls = 1
        /\ config.method = "POST"
        /\ config.url = baseUrl \o <<"/products">>
        /\ Get(config.data, "subproducts") = Get(call.args[1], "subproducts")

\* C10 witness: addProduct with a subproduct of stock 0 is awaiting its answer.
C10_Witness ==
    /\ call.op = "addProduct"
    /\ Get(call.args[1], "subproducts").t = "array"
    /\ \E i \in DOMAIN Get(call.args[1], "subproducts").items :
           Get(Get(call.args[1], "subproducts").items[i], "stock") = Num(0)
    /\ pc = "awaiting"
    /\ config.method = "POST"

(***************************************************************************)
(* Properties of getProducts and deleteProduct.                            *)
(***************************************************************************)
\* the field f of the options of the current call, Undefined when omitted
Option(f) == IF call.args[1] = Undefined THEN Undefined ELSE Get(call.args[1], f)

\* the value the claims name for field f: the given one, or the default
OptionOr(f, default) == IF Option(f) = Undefined THEN default ELSE Option(f)

\* the text "true" or "false"
TrueFalseText(v) ==
    v \in {Str("true"), Str("false"),
           Chars(<<"t", "r", "u", "e">>), Chars(<<"f", "a", "l", "s", "e">>)}

\* the current getProducts call is dispatched as the claim C11 says
GetProductsDispatched ==
    /\ pc \in {"awaiting", "returned"}
    /\ axiosCalls = 1
    /\ config.method = "GET"
    /\ config.url = baseUrl \o <<"/products">>
    /\ "data" \notin DOMAIN config
    /\ "params" \in DOMAIN config
    /\ ObjectKeys(config.params) = <<"productType", "isActive", "limit", "offset">>
    /\ Get(config.params, "productType") = OptionOr("productType", Str("auto"))
    /\ Get(config.params, "limit") = OptionOr("limit", Num(50))
    /\ Get(config.params, "offset") = OptionOr("offset", Num(0))
    /\ TrueFalseText(Get(config.params, "isActive"))
    /\ Option("isActive") = Undefined => Get(config.params, "isActive") = Str("true")

\* C11: every getProducts call, whatever its options object, is
\* dispatched as a GET on /products with the four parameters, omitted fields
\* at their defaults and isActive as the text "true" or "false".
C11_AnyOptions == (call.op = "getProducts") => GetProductsDispatched

\* C11 for the options whose isActive is omitted or a boolean: the call is
\* dispatched as a GET on /products with the four parameters, omitted fields
\* at their defaults, and isActive as "true" or "false" according to the
\* boolean.
C11_BooleanIsActive ==
    (call.op = "getProducts" /\ Option("isActive").t \in {"undefined", "boolean"}) =>
        /\ GetProductsDispatched
        /\ Get(config.params, "isActive") =
             (IF OptionOr("isActive", Bool(TRUE)).b THEN Str("true") ELSE Str("false"))

\* C11 witness: getProducts() without arguments is awaiting its answer with
\* the default parameters.
C11_Witness ==
    /\ call.op = "getProducts"
    /\ call.args[1] = Undefined
    /\ pc = "awaiting"
    /\ config.params = Obj(<< <<"productType", Str("auto")>>, <<"isActive", Str("true")>>,
                              <<"limit", Num(50)>>, <<"offset", Num(0)>> >>)

\* C12: deleteProduct with a truthy identifier invokes axios exactly once,
\* with DELETE <baseUrl>/products/<friendlyId>, no body and no parameters, and
\* when axios resolved with a 2xx response the envelope's data is that
\* response's body.
C12_DeleteRoundTrip ==
    (call.op = "deleteProduct" /\ Truthy(call.args[1])) =>
        /\ pc \in {"awaiting", "returned"}
        /\ axiosCalls = 1
        /\ config.method = "DELETE"
        /\ config.url = baseUrl \o <<"/products/">> \o ToTokens(call.args[1])
        /\ "data" \notin DOMAIN config
        /\ "params" \notin DOMAIN config
        /\ (Returned /\ outcome.kind = "resolved") =>
               /\ result.success
               /\ "data" \in DOMAIN result
               /\ result.data = outcome.response.data

(***************************************************************************)
(* Properties of the client and of the headers it sends.                   *)
(***************************************************************************)
EndpointOps == {"uploadImage", "addProduct", "getProducts", "deleteProduct"}

\* C13: every config an endpoint method hands to axios has the headers
\* X-Api-Key, equal to the client's key as it was given, and Content-Type
\* application/json, and no others.
C13_HeadersSent ==
    (call.op \in EndpointOps /\ axiosCalls > 0) =>
        config.headers = Obj(<< <<"X-Api-Key", apikey>>,
                                <<"Content-Type", Str("application/json")>> >>)

\* C13 witness: an endpoint call is awaiting its answer; the key in its
\* request log is masked and differs from the key in the config.
C13_Witness ==
    /\ call.op \in EndpointOps
    /\ pc = "awaiting"
    /\ Get(log[1].headers, "X-Api-Key") # apikey
    /\ Get(config.headers, "X-Api-Key") = apikey

\* C14: a client exists only with a non-empty key (a constructor call with
\* an empty or missing key throws and leaves no client), and once the client
\* exists no step changes its apikey or its baseUrl.
C14_CredentialsFixed ==
    /\ [](/\ constructed = "yes" => (apikey \in Keys /\ baseUrl = BaseUrl)
          /\ constructed = "failed" => (apikey = Undefined /\ thrown # NoError /\ pc = "idle"))
    /\ [][constructed = "yes" =>
            (constructed' = "yes" /\ apikey' = apikey /\ baseUrl' = baseUrl)]_vars

\* C14 witness: a call on a constructed client has returned.
C14_Witness == constructed = "yes" /\ Returned /\ apikey \in Keys

(***************************************************************************)
(* Properties of the course of one call.                                   *)
(***************************************************************************)
\* how often effect e occurs in the trace of the call
Count(e) == Cardinality({i \in DOMAIN trace : trace[i] = e})

\* C15: the request log is emitted before axios is invoked, and a call that
\* has returned has emitted after the dispatch exactly one more log, the
\* response log when its envelope is a success and the error log when it is a
\* failure, before it returned.
C15_LogOrder ==
    /\ pc = "awaiting" =>
          /\ trace = <<"request log", "dispatch">>
          /\ Len(log) = 1 /\ log[1].kind = "request"
    /\ Returned =>
          /\ trace = <<"request log", "dispatch",
                       IF result.success THEN "response log" ELSE "error log", "return">>
          /\ Len(log) = 2
          /\ log[1].kind = "request"
          /\ log[2].kind = (IF result.success THEN "response" ELSE "error")

\* C15 witness: a call has returned a failure envelope after its error log.
C15_Witness ==
    /\ Returned
    /\ ~result.success
    /\ trace = <<"request log", "dispatch", "error log", "return">>

\* C16: a call invokes axios at most once, and a call that returned a
\* failure envelope (server error, no response, setup failure) did so after
\* its single dispatch.
C16_SingleAttempt ==
    /\ axiosCalls <= 1
    /\ Count("dispatch") = axiosCalls
    /\ (Returned /\ ~result.success) => (axiosCalls = 1 /\ outcome # NoOutcome)

\* C16 witness: a call whose request was rejected without a response has
\* returned after one dispatch.
C16_Witness ==
    /\ Returned
    /\ outcome.kind = "rejected"
    /\ outcome.error.response = Undefined
    /\ axiosCalls = 1

\* the fields of an envelope
Fields(envelope) == DOMAIN envelope

\* C18: every envelope is of exactly one of the two variants: success true
\* with status, data and duration and nothing else, or success false with
\* status, error, message and duration and nothing else; status is a number
\* for a success and for a server failure and null otherwise; duration is a
\* number >= 0.
C18_EnvelopeShape ==
    Returned =>
        /\ result.success \in BOOLEAN
        /\ result.success =>
              /\ Fields(result) = {"success", "status", "data", "duration"}
              /\ result.status.t = "number"
        /\ ~result.success =>
              /\ Fields(result) = {"success", "status", "error", "message", "duration"}
              /\ result.status.t = (IF outcome.kind = "rejected" /\ Truthy(outcome.error.response)
                                    THEN "number" ELSE "null")
        /\ result.duration \in 0..MaxTime

\* C18 witness: a failure envelope without a status has been returned after
\* the clock advanced.
C18_Witness ==
    /\ Returned
    /\ ~result.success
    /\ result.status = Null
    /\ result.duration > 0

\* the axios promise was rejected because the timeout expired
TimedOut == outcome.kind = "rejected" /\ outcome.error = TimeoutError

\* C17: every call that passed validation (it is awaiting axios, with the
\* fixed timeout of 30000 ms in its config) eventually returns an envelope,
\* that envelope is not replaced by another one, and a call whose timeout
\* expired returns the no-response failure.
C17_Terminates ==
    /\ [](pc = "awaiting" => config.timeout = 30000)
    /\ [](TimedOut => (/\ Returned
                       /\ ~result.success
                       /\ result.status = Null
                       /\ result.error = Str("No response received")))
    /\ [][result # NoResult => result' \in {result, NoResult}]_vars
    /\ (pc = "awaiting") ~> Returned

\* C17 witness: a call whose timeout expired has returned.
C17_Witness == TimedOut /\ Returned /\ result.status = Null

\* the request a call issues when no other call is in flight
AloneRequest(c) ==
    IF c.op = "uploadImage"
    THEN [method |-> "POST", url |-> baseUrl \o <<"/upload-image">>,
          data |-> uploadImagePayload(Default(c.args[1], Obj(<<>>))), params |-> Null]
    ELSE IF c.op = "getProducts"
    THEN [method |-> "GET", url |-> baseUrl \o <<"/products">>, data |-> Null,
          params |-> getProductsParams(Default(c.args[1], Obj(<<>>)))]
    ELSE [method |-> "DELETE", url |-> baseUrl \o <<"/products/">> \o ToTokens(c.args[1]),
          data |-> Null, params |-> Null]

\* the locals of a call are those it would have had alone: the config handed
\* to axios follows from its arguments, its start time is its own
Own(ctx) ==
    /\ ctx.config = axiosConfig(AloneRequest(ctx.call).method, AloneRequest(ctx.call).url,
                                getHeader, AloneRequest(ctx.call).data,
                                AloneRequest(ctx.call).params)
    /\ ctx.req.headers = getHeader
    /\ ctx.axiosCalls = 1
    /\ ctx.startTime = ctx.call.at

\* C19: for every interleaving of concurrent calls on one client, the request
\* each call hands to axios is the one its own arguments give, and the
\* envelope it returns is the one its own axios outcome and its own elapsed
\* time give, as when it runs alone.
C19_Isolated ==
    /\ \A i \in DOMAIN parked : Own(parked[i])
    /\ pc \in {"awaiting", "returned"} => Own(locals)
    /\ Returned => result = settle(outcome, elapsed(call.at, now)).envelope

\* C19 witness: a call returned its envelope after a call issued later than
\* it was dispatched, and while that later call is still awaiting.
C19_Witness ==
    /\ Returned
    /\ parked # <<>>
    /\ parked[1].call.at > call.at
    /\ parked[1].call.op # call.op
    /\ result.duration > 0

====
